---- MODULE Spec2Model ----
(***************************************************************************)
(* Model of AsyncThrottle (src/src/async_throttle.ts): a client-side       *)
(* throttle that limits the number of outstanding asynchronous work items  *)
(* and the number of items started per rolling one-second window.          *)
(*                                                                         *)
(* Work objects are the nodes 0..Burst of the circular doubly-linked       *)
(* list; node 0 is the sentinel `workList`.  Node w >= 1 is the w-th Work  *)
(* object created by callThrottled, so node numbers are submission order.  *)
(*                                                                         *)
(* Time.  The code stores expirationTime = Date.now() + 1000 and only ever *)
(* reads it through expirationDelay() = max(0, expirationTime - now).  The *)
(* model keeps that distance (a countdown), which Tick decreases as the    *)
(* clock advances; the clock advances in steps of half a window.  An armed *)
(* timer is kept the same way, as the time left until it is due.           *)
(***************************************************************************)
EXTENDS Integers, Sequences, FiniteSets, TLC

\* Number of Work objects callThrottled may create in one run.
MaxItems == 3
\* Number of Work objects in a run of BurstSpec: one more, so that MaxLimit
\* started items, a waiting item and a new submission exist together.
Burst == MaxItems + 1
\* Largest value given to the options maxOutstanding and maxQps.
MaxLimit == 2

\* Length of the QPS window in ms (Work.execute: Date.now() + 1000).
Window == 1000
\* Stand-in for Number.MAX_SAFE_INTEGER (2^53 - 1 exceeds TLC's 32-bit
\* integers); only ever compared against the two counters.
MAX_SAFE_INTEGER == 2147483647

\* Amount by which one Tick advances the clock.
Quantum == Window \div 2

Nodes == 0..Burst
Items == 1..Burst
\* The sentinel node.
workList == 0

\* What a caller-supplied work function does when it is invoked: return a
\* promise, or throw.
Kinds == {"promise", "throw"}
\* How the promise returned by a work function settles.
Outcomes == {"fulfilled", "rejected"}

VARIABLES
  options,               \* constructor argument: 0 stands for an absent field
  maxOutstanding, maxQps,
  next, prev,            \* list linkage of every Work object
  expirationSet,         \* expirationTime is non-zero (truthy)
  expirationDelay,       \* max(0, expirationTime - Date.now())
  readyWorkPredecessor,
  outstandingCount, qpsCount,
  expiringWorkTimer,     \* TRUE iff the timer handle is non-null
  timerDelay,            \* time until the pending timer is due
  timers,                \* host timers set and neither run nor cleared
  whenQuiescent,         \* 0 is null, otherwise the identity of the promise
  onLastWorkItemDrained, \* TRUE iff the callback is non-null
  \* ---- environment and observation ----
  created,               \* number of Work objects created so far
  kind,                  \* behaviour of each item's work function
  outcome,               \* how the promise the work function returned settled
  phase,                 \* "new", "queued", "running", "cleaned", "settled";
                         \* "broken", "lost" when the cleanup callback threw
  age,                   \* time since the item was started, capped at Window
  calls,                 \* how often each item's work function was invoked
  cleanups,              \* how often each item's cleanup callback has run
  startOrder,            \* items in the order their work function was invoked
  settlements,           \* per item, the sequence of settlements of whenComplete
  drainPromises,         \* number of drain promises created so far
  drainResolved,         \* drain promises whose resolve() was called
  log,                   \* events of the last step, in order
  \* ---- callAllThrottled ----
  called,                \* callAllThrottled has been called on this throttle
  startWorkArray,        \* its argument: the behaviour of each work function
  results,               \* 0 is an empty slot
  outstandingResultCount,
  rejected,
  collected,             \* items whose .then/.catch handlers have run
  rejections,            \* those of them that had rejected, in that order
  allSettled             \* calls of resolve and reject of the returned promise

vars == <<options, maxOutstanding, maxQps, next, prev, expirationSet,
          expirationDelay, readyWorkPredecessor, outstandingCount, qpsCount,
          expiringWorkTimer, timerDelay, timers, whenQuiescent,
          onLastWorkItemDrained, created, kind, outcome, phase, age, calls,
          cleanups, startOrder, settlements, drainPromises, drainResolved, log,
          called, startWorkArray, results, outstandingResultCount, rejected,
          collected, rejections, allSettled>>

\* The state of a callAllThrottled call.
allVars == <<called, startWorkArray, results, outstandingResultCount, rejected,
             collected, rejections, allSettled>>

\* The mutable part of the state as one record, so that the methods can be
\* written as functions from state to state.
State ==
  [next |-> next, prev |-> prev, expirationSet |-> expirationSet,
   expirationDelay |-> expirationDelay,
   readyWorkPredecessor |-> readyWorkPredecessor,
   outstandingCount |-> outstandingCount, qpsCount |-> qpsCount,
   expiringWorkTimer |-> expiringWorkTimer, timerDelay |-> timerDelay,
   timers |-> timers,
   whenQuiescent |-> whenQuiescent,
   onLastWorkItemDrained |-> onLastWorkItemDrained,
   created |-> created, kind |-> kind, outcome |-> outcome,
   phase |-> phase, age |-> age, calls |-> calls, cleanups |-> cleanups,
   startOrder |-> startOrder, settlements |-> settlements,
   drainPromises |-> drainPromises, drainResolved |-> drainResolved,
   log |-> log]

Install(S) ==
  /\ next' = S.next
  /\ prev' = S.prev
  /\ expirationSet' = S.expirationSet
  /\ expirationDelay' = S.expirationDelay
  /\ readyWorkPredecessor' = S.readyWorkPredecessor
  /\ outstandingCount' = S.outstandingCount
  /\ qpsCount' = S.qpsCount
  /\ expiringWorkTimer' = S.expiringWorkTimer
  /\ timerDelay' = S.timerDelay
  /\ timers' = S.timers
  /\ whenQuiescent' = S.whenQuiescent
  /\ onLastWorkItemDrained' = S.onLastWorkItemDrained
  /\ created' = S.created
  /\ kind' = S.kind
  /\ outcome' = S.outcome
  /\ phase' = S.phase
  /\ age' = S.age
  /\ calls' = S.calls
  /\ cleanups' = S.cleanups
  /\ startOrder' = S.startOrder
  /\ settlements' = S.settlements
  /\ drainPromises' = S.drainPromises
  /\ drainResolved' = S.drainResolved
  /\ log' = S.log

Event(e, w) == [ev |-> e, w |-> w]
Logged(S, e, w) == [S EXCEPT !.log = Append(@, Event(e, w))]

Max(a, b) == IF a >= b THEN a ELSE b
Min(a, b) == IF a <= b THEN a ELSE b

\* Evaluates e once and hands the value to F.  (An operator argument or LET
\* definition is re-evaluated at every use when ENABLED is evaluated, which
\* the nesting of the methods below would make exponential.)
Bind(e, F(_)) == CHOOSE r \in {F(x) : x \in {e}} : TRUE

----------------------------------------------------------------------------
\* class Work

\* Expiry declared half a window early.
isExpired_Early(S, w) == S.expirationSet[w] /\ S.expirationDelay[w] <= Quantum

\* Work.isExpired: expirationTime && expirationDelay() <= 0
isExpired(S, w) == S.expirationSet[w] /\ S.expirationDelay[w] <= 0

\* Work.insertAfter, statement by statement.
insertAfter(S0, this, work) ==
  Bind(S0, LAMBDA S :
    LET p1 == [S.prev EXCEPT ![this] = work]
        n1 == [S.next EXCEPT ![this] = S.next[work]]
        n2 == [n1 EXCEPT ![p1[this]] = this]
        p2 == [p1 EXCEPT ![n2[this]] = this]
    IN [S EXCEPT !.next = n2, !.prev = p2])

\* Work.remove, statement by statement.  The removed node keeps its own links.
remove(S0, this) ==
  Bind(S0, LAMBDA S :
    LET n1 == [S.next EXCEPT ![S.prev[this]] = S.next[this]]
        p1 == [S.prev EXCEPT ![n1[this]] = S.prev[this]]
    IN [S EXCEPT !.next = n1, !.prev = p1])

----------------------------------------------------------------------------
\* class AsyncThrottle: the one-line helpers

first(S) == S.next[workList]
\* The head of the list taken for its tail.
last_Head(S) == S.next[workList]
last(S) == S.prev[workList]
hasExpiredWork(S) == Bind(S, LAMBDA T : isExpired(T, first(T)))
hasReadyWork(S) == Bind(S, LAMBDA T : T.next[T.readyWorkPredecessor] # workList)
\* Off by one: saturated only once the cap is exceeded.
atMaxOutstanding_Strict(S) == S.outstandingCount > maxOutstanding
atMaxOutstanding(S) == S.outstandingCount >= maxOutstanding
\* The rate limit is taken to be reached one start early.
atMaxQps_Early(S) == S.qpsCount + 1 >= maxQps
atMaxQps(S) == S.qpsCount >= maxQps
\* Either limit having room is taken to be enough.
canExecuteWork_Either(S) == Bind(S, LAMBDA T : ~atMaxQps(T) \/ ~atMaxOutstanding(T))
canExecuteWork(S) == Bind(S, LAMBDA T : ~atMaxQps(T) /\ ~atMaxOutstanding(T))

\* A drain promise is created for every enqueued item.
onWorkItemEnqueued_Always(S0) ==
  Bind(S0, LAMBDA S :
    [S EXCEPT !.drainPromises = @ + 1,
              !.whenQuiescent = S.drainPromises + 1,
              !.onLastWorkItemDrained = TRUE])

\* onWorkItemEnqueued: create the drain promise unless one exists.
onWorkItemEnqueued(S0) ==
  Bind(S0, LAMBDA S :
    IF S.whenQuiescent = 0
      THEN [S EXCEPT !.drainPromises = @ + 1,
                     !.whenQuiescent = S.drainPromises + 1,
                     !.onLastWorkItemDrained = TRUE]
      ELSE S)

\* The closure with whenQuiescent left in place after it is resolved.
fireLastWorkItemDrained_KeepPromise(S0) ==
  Bind(S0, LAMBDA S :
    Logged([S EXCEPT !.drainResolved = @ \cup {S.whenQuiescent},
                     !.onLastWorkItemDrained = FALSE],
           "drain", S.whenQuiescent))

\* The closure stored in onLastWorkItemDrained.
fireLastWorkItemDrained(S0) ==
  Bind(S0, LAMBDA S :
    Logged([S EXCEPT !.drainResolved = @ \cup {S.whenQuiescent},
                     !.whenQuiescent = 0,
                     !.onLastWorkItemDrained = FALSE],
           "drain", S.whenQuiescent))

\* The purge with the cursor reset on every removal, not only when the
\* removed item is the cursor.
purgeOne_ResetCursor(S0) ==
  Bind(S0, LAMBDA S :
    Bind(remove(S, first(S)), LAMBDA S1 :
      LET work == first(S)
          S2 == [S1 EXCEPT !.qpsCount = @ - 1]
          S3 == [S2 EXCEPT !.readyWorkPredecessor = S2.prev[work]]
      IN Logged(S3, "purge", work)))

\* The purge without the decrement of qpsCount.
purgeOne_NoDecrement(S0) ==
  Bind(S0, LAMBDA S :
    Bind(remove(S, first(S)), LAMBDA S1 :
      LET work == first(S)
          S3 == IF S1.readyWorkPredecessor = work
                  THEN [S1 EXCEPT !.readyWorkPredecessor = S1.prev[work]]
                  ELSE S1
      IN Logged(S3, "purge", work)))

\* The purge without the pointer fixup: the cursor stays on a removed item.
purgeOne_KeepCursor(S0) ==
  Bind(S0, LAMBDA S :
    Bind(remove(S, first(S)), LAMBDA S1 :
      LET work == first(S)
          S2 == [S1 EXCEPT !.qpsCount = @ - 1]
      IN Logged(S2, "purge", work)))

\* One iteration of the loop of purgeExpiredWork.
purgeOne(S0) ==
  Bind(S0, LAMBDA S :
    Bind(remove(S, first(S)), LAMBDA S1 :
      LET work == first(S)
          S2 == [S1 EXCEPT !.qpsCount = @ - 1]
          S3 == IF S2.readyWorkPredecessor = work
                  THEN [S2 EXCEPT !.readyWorkPredecessor = S2.prev[work]]
                  ELSE S2
      IN Logged(S3, "purge", work)))

\* purgeExpiredWork
RECURSIVE purgeExpiredWork(_)
purgeExpiredWork(S0) ==
  Bind(S0, LAMBDA S :
    IF hasExpiredWork(S) THEN purgeExpiredWork(purgeOne(S)) ELSE S)

\* The timer always armed for a full window.
updateTimer_FullWindow(S0) ==
  Bind(S0, LAMBDA S :
    IF hasReadyWork(S) /\ atMaxQps(S) /\ ~atMaxOutstanding(S)
      THEN IF ~S.expiringWorkTimer
             THEN [S EXCEPT !.expiringWorkTimer = TRUE, !.timerDelay = Window,
                            !.timers = @ + 1]
             ELSE S
      ELSE IF S.expiringWorkTimer
             THEN [S EXCEPT !.expiringWorkTimer = FALSE, !.timerDelay = 0,
                            !.timers = @ - 1]
             ELSE S)

\* The timer armed whenever ready work meets a full window, whether or not
\* the outstanding limit is reached as well.
updateTimer_IgnoreOutstanding(S0) ==
  Bind(S0, LAMBDA S :
    IF hasReadyWork(S) /\ atMaxQps(S)
      THEN IF ~S.expiringWorkTimer
             THEN [S EXCEPT !.expiringWorkTimer = TRUE,
                            !.timerDelay = S.expirationDelay[first(S)],
                            !.timers = @ + 1]
             ELSE S
      ELSE IF S.expiringWorkTimer
             THEN [S EXCEPT !.expiringWorkTimer = FALSE, !.timerDelay = 0,
                            !.timers = @ - 1]
             ELSE S)

\* The timer armed for the expiry of the item started last.
updateTimer_FromCursor(S0) ==
  Bind(S0, LAMBDA S :
    IF hasReadyWork(S) /\ atMaxQps(S) /\ ~atMaxOutstanding(S)
      THEN IF ~S.expiringWorkTimer
             THEN [S EXCEPT !.expiringWorkTimer = TRUE,
                            !.timerDelay =
                               S.expirationDelay[S.readyWorkPredecessor],
                            !.timers = @ + 1]
             ELSE S
      ELSE IF S.expiringWorkTimer
             THEN [S EXCEPT !.expiringWorkTimer = FALSE, !.timerDelay = 0,
                            !.timers = @ - 1]
             ELSE S)

\* updateTimer
updateTimer(S0) ==
  Bind(S0, LAMBDA S :
    IF hasReadyWork(S) /\ atMaxQps(S) /\ ~atMaxOutstanding(S)
      THEN IF ~S.expiringWorkTimer
             THEN [S EXCEPT !.expiringWorkTimer = TRUE,
                            !.timerDelay = S.expirationDelay[first(S)],
                            !.timers = @ + 1]
             ELSE S
      ELSE IF S.expiringWorkTimer
             THEN [S EXCEPT !.expiringWorkTimer = FALSE, !.timerDelay = 0,
                            !.timers = @ - 1]
             ELSE S)

RECURSIVE executeReadyWork(_)
RECURSIVE processWork(_)

\* The part of the cleanup callback after the decrement: fire the drain
\* signal if the throttle is empty, then re-run admission if asked to.  A
\* call of a null onLastWorkItemDrained throws a TypeError out of the
\* callback, which skips the rest of it; `threw` reports that to the caller.
afterDecrement(S1, drained, shouldTriggerWork) ==
  Bind(S1, LAMBDA S :
    IF drained
      THEN IF S.onLastWorkItemDrained
             THEN [threw |-> FALSE,
                   st |-> IF shouldTriggerWork
                            THEN processWork(fireLastWorkItemDrained(S))
                            ELSE fireLastWorkItemDrained(S)]
             ELSE [threw |-> TRUE, st |-> S]
      ELSE [threw |-> FALSE,
            st |-> IF shouldTriggerWork THEN processWork(S) ELSE S])

\* The callback reading atMaxOutstanding only after the decrement.
cleanup_LateTest(S0, w) ==
  Bind(Logged([S0 EXCEPT !.outstandingCount = @ - 1, !.cleanups[w] = @ + 1],
              "cleanup", w), LAMBDA S1 :
    afterDecrement(S1, S1.outstandingCount = 0 /\ ~hasReadyWork(S1),
                   atMaxOutstanding(S1)))

\* The callback that re-runs admission only when it emptied the throttle.
cleanup_TriggerWhenEmpty(S0, w) ==
  Bind(Logged([S0 EXCEPT !.outstandingCount = @ - 1, !.cleanups[w] = @ + 1],
              "cleanup", w), LAMBDA S1 :
    afterDecrement(S1, S1.outstandingCount = 0 /\ ~hasReadyWork(S1),
                   S1.outstandingCount = 0))

\* The callback without the hasReadyWork test before firing the drain signal.
cleanup_NoReadyTest(S0, w) ==
  Bind(S0, LAMBDA S :
    Bind(Logged([S EXCEPT !.outstandingCount = @ - 1, !.cleanups[w] = @ + 1],
                "cleanup", w), LAMBDA S1 :
      afterDecrement(S1, S1.outstandingCount = 0, atMaxOutstanding(S))))

\* The callback with processWork called after every completion.
cleanup_AlwaysTrigger(S0, w) ==
  Bind(S0, LAMBDA S :
    Bind(Logged([S EXCEPT !.outstandingCount = @ - 1, !.cleanups[w] = @ + 1],
                "cleanup", w), LAMBDA S1 :
      afterDecrement(S1, S1.outstandingCount = 0 /\ ~hasReadyWork(S1), TRUE)))

\* The callback with the drain signal fired as soon as no work is ready,
\* whatever is still outstanding.
cleanup_DrainWhenNoneReady(S0, w) ==
  Bind(S0, LAMBDA S :
    Bind(Logged([S EXCEPT !.outstandingCount = @ - 1, !.cleanups[w] = @ + 1],
                "cleanup", w), LAMBDA S1 :
      afterDecrement(S1, ~hasReadyWork(S1), atMaxOutstanding(S))))

\* The callback re-running processWork whenever work is waiting, whatever
\* the outstanding count was.
cleanup_TriggerWhenReady(S0, w) ==
  Bind(S0, LAMBDA S :
    Bind(Logged([S EXCEPT !.outstandingCount = @ - 1, !.cleanups[w] = @ + 1],
                "cleanup", w), LAMBDA S1 :
      afterDecrement(S1, S1.outstandingCount = 0 /\ ~hasReadyWork(S1),
                     hasReadyWork(S))))

\* The cleanup callback that executeReadyWork hands to Work.execute:
\*   const shouldTriggerWork = this.atMaxOutstanding();
\*   if (--this.outstandingCount === 0 && !this.hasReadyWork()) drained();
\*   if (shouldTriggerWork) this.processWork();
cleanup(S0, w) ==
  Bind(S0, LAMBDA S :
    Bind(Logged([S EXCEPT !.outstandingCount = @ - 1, !.cleanups[w] = @ + 1],
                "cleanup", w), LAMBDA S1 :
      afterDecrement(S1, S1.outstandingCount = 0 /\ ~hasReadyWork(S1),
                     atMaxOutstanding(S))))

\* The settlement of whenComplete: resolve(value) or reject(error).  A promise
\* takes the first settlement only; every call is recorded.
settle(S, w, how, whose) ==
  Logged([S EXCEPT !.settlements[w] = Append(@, [how |-> how, of |-> whose]),
                   !.phase[w] = "settled"],
         "settle", w)

\* execute with the expiration set half a window after the start.
execute_HalfWindow(S0, w) ==
  Bind(Logged([S0 EXCEPT !.expirationSet[w] = TRUE,
                         !.expirationDelay[w] = Quantum,
                         !.age[w] = 0,
                         !.calls[w] = @ + 1,
                         !.startOrder = Append(@, w),
                         !.phase[w] = "running"],
              "start", w), LAMBDA S1 :
    IF S1.kind[w] = "throw"
      THEN Bind(cleanup(S1, w), LAMBDA c :
             IF c.threw
               THEN [c.st EXCEPT !.phase[w] = "lost"]
               ELSE settle(c.st, w, "rejected", w))
      ELSE S1)

\* execute with a catch block that only rejects: no cleanup after a throw.
execute_NoCleanupOnThrow(S0, w) ==
  Bind(Logged([S0 EXCEPT !.expirationSet[w] = TRUE,
                         !.expirationDelay[w] = Window,
                         !.age[w] = 0,
                         !.calls[w] = @ + 1,
                         !.startOrder = Append(@, w),
                         !.phase[w] = "running"],
              "start", w), LAMBDA S1 :
    IF S1.kind[w] = "throw"
      THEN settle(S1, w, "rejected", w)
      ELSE S1)

\* execute with the catch block in the other order: this.reject(e), then
\* cleanup().
execute_RejectFirst(S0, w) ==
  Bind(Logged([S0 EXCEPT !.expirationSet[w] = TRUE,
                         !.expirationDelay[w] = Window,
                         !.age[w] = 0,
                         !.calls[w] = @ + 1,
                         !.startOrder = Append(@, w),
                         !.phase[w] = "running"],
              "start", w), LAMBDA S1 :
    IF S1.kind[w] = "throw"
      THEN Bind(cleanup(settle(S1, w, "rejected", w), w), LAMBDA c : c.st)
      ELSE S1)

\* Work.execute, up to the return of startWork().  A work function that
\* returns a promise leaves the item running: .finally(cleanup) runs in a
\* later turn (action Complete).  A work function that throws runs the
\* catch block at once: cleanup(), then this.reject(e); if cleanup() itself
\* throws, `finally { return ... }` discards that exception and reject is
\* never called.
execute(S0, w) ==
  Bind(Logged([S0 EXCEPT !.expirationSet[w] = TRUE,
                         !.expirationDelay[w] = Window,
                         !.age[w] = 0,
                         !.calls[w] = @ + 1,
                         !.startOrder = Append(@, w),
                         !.phase[w] = "running"],
              "start", w), LAMBDA S1 :
    IF S1.kind[w] = "throw"
      THEN Bind(cleanup(S1, w), LAMBDA c :
             IF c.threw
               THEN [c.st EXCEPT !.phase[w] = "lost"]
               ELSE settle(c.st, w, "rejected", w))
      ELSE S1)

\* executeReadyWork
executeReadyWork(S0) ==
  Bind(S0, LAMBDA S :
    IF hasReadyWork(S) /\ canExecuteWork(S)
      THEN LET work == S.next[S.readyWorkPredecessor]
           IN executeReadyWork(
                execute([S EXCEPT !.readyWorkPredecessor = work,
                                  !.outstandingCount = @ + 1,
                                  !.qpsCount = @ + 1],
                        work))
      ELSE S)

\* processWork
processWork(S) ==
  Logged(updateTimer(executeReadyWork(purgeExpiredWork(Logged(S, "enter", 0)))),
         "exit", 0)

\* The new Work object linked in by callThrottled.
newWork(S0, k) ==
  Bind(S0, LAMBDA S :
    [S EXCEPT !.created = @ + 1, !.kind[S.created + 1] = k,
              !.phase[S.created + 1] = "queued"])

\* A variant that links the new item in right behind the ready cursor, i.e.
\* in front of the items already waiting.
callThrottled_AtCursor(S0, k) ==
  Bind(newWork(S0, k), LAMBDA S :
    processWork(Logged(onWorkItemEnqueued(
                         insertAfter(S, S.created, S.readyWorkPredecessor)),
                       "submit", S.created)))

\* callThrottled, for a work function of behaviour k.
callThrottled(S0, k) ==
  Bind(newWork(S0, k), LAMBDA S :
    processWork(Logged(onWorkItemEnqueued(insertAfter(S, S.created, last(S))),
                       "submit", S.created)))

----------------------------------------------------------------------------
\* An absent option taken as a limit of one.
orDefault_One(opt) == IF opt # 0 THEN opt ELSE 1

\* The constructor: `options.maxOutstanding || Number.MAX_SAFE_INTEGER`.
orDefault(opt) == IF opt # 0 THEN opt ELSE MAX_SAFE_INTEGER

Init ==
  /\ options \in [maxOutstanding : 0..MaxLimit, maxQps : 0..MaxLimit]
  /\ maxOutstanding = orDefault(options.maxOutstanding)
  /\ maxQps = orDefault(options.maxQps)
  /\ next = [w \in Nodes |-> w]
  /\ prev = [w \in Nodes |-> w]
  /\ expirationSet = [w \in Nodes |-> FALSE]
  /\ expirationDelay = [w \in Nodes |-> 0]
  /\ readyWorkPredecessor = workList
  /\ outstandingCount = 0
  /\ qpsCount = 0
  /\ expiringWorkTimer = FALSE
  /\ timerDelay = 0
  /\ timers = 0
  /\ whenQuiescent = 0
  /\ onLastWorkItemDrained = FALSE
  /\ created = 0
  /\ kind = [w \in Items |-> "promise"]
  /\ outcome = [w \in Items |-> "none"]
  /\ phase = [w \in Items |-> "new"]
  /\ age = [w \in Items |-> 0]
  /\ calls = [w \in Items |-> 0]
  /\ cleanups = [w \in Items |-> 0]
  /\ startOrder = << >>
  /\ settlements = [w \in Items |-> << >>]
  /\ drainPromises = 0
  /\ drainResolved = {}
  /\ log = << >>
  /\ called = FALSE
  /\ startWorkArray = << >>
  /\ results = << >>
  /\ outstandingResultCount = 0
  /\ rejected = FALSE
  /\ collected = {}
  /\ rejections = << >>
  /\ allSettled = << >>

Fresh == [State EXCEPT !.log = << >>]

\* A caller submits a work function.
Submit(k) ==
  /\ created < MaxItems
  /\ \E S \in {callThrottled(Fresh, k)} : Install(S)
  /\ UNCHANGED <<options, maxOutstanding, maxQps, allVars>>

\* The chain with .then(cleanup) in place of .finally(cleanup): a rejected
\* work promise skips the bookkeeping.
Complete_ThenOnly(w, o) ==
  /\ phase[w] = "running"
  /\ \E c \in {IF o = "rejected"
                  THEN [threw |-> FALSE, st |-> [Fresh EXCEPT !.outcome[w] = o]]
                  ELSE cleanup([Fresh EXCEPT !.outcome[w] = o], w)} :
       \E S \in {[c.st EXCEPT !.phase[w] = IF c.threw THEN "broken"
                                                      ELSE "cleaned"]} :
         Install(S)
  /\ UNCHANGED <<options, maxOutstanding, maxQps, allVars>>

\* The promise returned by item w's work function settles as o and the
\* .finally(cleanup) callback runs.  If cleanup throws, the chained promise
\* rejects with that TypeError instead of the work's outcome.
Complete(w, o) ==
  /\ phase[w] = "running"
  /\ \E c \in {cleanup([Fresh EXCEPT !.outcome[w] = o], w)} :
       \E S \in {[c.st EXCEPT !.phase[w] = IF c.threw THEN "broken"
                                                      ELSE "cleaned"]} :
         Install(S)
  /\ UNCHANGED <<options, maxOutstanding, maxQps, allVars>>

\* The tail of the chain with the rejection handler wired to resolve.
Settle_AlwaysResolve(w) ==
  /\ phase[w] \in {"cleaned", "broken"}
  /\ \E S \in {settle(Fresh, w, "fulfilled", w)} : Install(S)
  /\ UNCHANGED <<options, maxOutstanding, maxQps, allVars>>

\* The .then(this.resolve).catch(this.reject) tail of the chain runs.
Settle(w) ==
  /\ phase[w] \in {"cleaned", "broken"}
  /\ \E S \in {IF phase[w] = "broken"
                  THEN settle(Fresh, w, "rejected", 0)
                  ELSE settle(Fresh, w, outcome[w], w)} : Install(S)
  /\ UNCHANGED <<options, maxOutstanding, maxQps, allVars>>

\* The setTimeout callback of updateTimer runs.
TimerFire ==
  /\ expiringWorkTimer
  /\ timerDelay = 0
  /\ \E S \in {processWork(Logged([Fresh EXCEPT !.expiringWorkTimer = FALSE,
                                                !.timers = @ - 1],
                                  "timer", 0))} : Install(S)
  /\ UNCHANGED <<options, maxOutstanding, maxQps, allVars>>

\* whenDrained(): returns whenQuiescent, or else Promise.resolve(), a new
\* promise that is already resolved (logged as promise 0).
WhenDrained ==
  /\ log' = << Event("whenDrained", whenQuiescent) >>
  /\ UNCHANGED <<allVars, options, maxOutstanding, maxQps, next, prev, expirationSet,
                 expirationDelay, readyWorkPredecessor, outstandingCount,
                 qpsCount, expiringWorkTimer, timerDelay, timers,
                 whenQuiescent, onLastWorkItemDrained, created, kind, outcome,
                 phase, age, calls, cleanups, startOrder, settlements,
                 drainPromises, drainResolved>>

\* The clock advances by Quantum.
Advance ==
  /\ expirationDelay' = [w \in Nodes |->
        IF expirationSet[w] THEN Max(0, expirationDelay[w] - Quantum)
                            ELSE expirationDelay[w]]
  /\ timerDelay' = IF expiringWorkTimer THEN Max(0, timerDelay - Quantum)
                                        ELSE timerDelay
  /\ age' = [w \in Items |->
        IF calls[w] > 0 THEN Min(Window, age[w] + Quantum) ELSE age[w]]
  /\ log' = << >>
  /\ UNCHANGED <<allVars, options, maxOutstanding, maxQps, next, prev, expirationSet,
                 readyWorkPredecessor, outstandingCount, qpsCount,
                 expiringWorkTimer, timers, whenQuiescent,
                 onLastWorkItemDrained, created, kind, outcome, phase, calls,
                 cleanups, startOrder, settlements, drainPromises,
                 drainResolved>>

TimerDue == expiringWorkTimer /\ timerDelay = 0

\* Time passes while no timer is overdue: timers run on time.
Tick == ~TimerDue /\ Advance

\* Time passes although a timer is due: the timer callback runs late.
TickLate == TimerDue /\ Advance

\* The loop of callAllThrottled: callThrottled(startWorkArray[i]) for each i
\* in turn, all within the one synchronous call.
RECURSIVE callEach(_, _, _)
callEach(S0, ks, i) ==
  Bind(S0, LAMBDA S :
    IF i > Len(ks) THEN S ELSE callEach(callThrottled(S, ks[i]), ks, i + 1))

\* callAllThrottled(startWorkArray, options) on the throttle it constructs
\* from options: the executor of the returned promise runs at once.  Item i
\* of the array is Work object i.
callAllThrottled(ks) ==
  /\ ~called /\ created = 0
  /\ called' = TRUE
  /\ startWorkArray' = ks
  /\ rejected' = FALSE
  /\ results' = [i \in 1..Len(ks) |-> 0]
  /\ outstandingResultCount' = Len(ks)
  /\ \E S \in {callEach(Fresh, ks, 1)} : Install(S)
  /\ UNCHANGED <<options, maxOutstanding, maxQps, collected, rejections,
                 allSettled>>

\* The handlers without the rejected flag: every rejection calls reject.
Collect_NoFlag(w) ==
  /\ called /\ phase[w] = "settled"
  /\ w \notin collected
  /\ collected' = collected \cup {w}
  /\ log' = << >>
  /\ IF settlements[w][1].how = "fulfilled"
       THEN /\ results' = [results EXCEPT ![w] = settlements[w][1].of]
            /\ outstandingResultCount' = outstandingResultCount - 1
            /\ allSettled' =
                 IF outstandingResultCount' = 0
                   THEN Append(allSettled, [how |-> "fulfilled",
                                            value |-> results', error |-> 0])
                   ELSE allSettled
            /\ UNCHANGED <<rejected, rejections>>
       ELSE /\ rejected' = TRUE
            /\ rejections' = Append(rejections, w)
            /\ allSettled' =
                 Append(allSettled, [how |-> "rejected", value |-> << >>,
                                     error |-> settlements[w][1].of])
            /\ UNCHANGED <<results, outstandingResultCount>>
  /\ UNCHANGED <<called, startWorkArray, options, maxOutstanding, maxQps,
                 next, prev, expirationSet,
                 expirationDelay, readyWorkPredecessor, outstandingCount,
                 qpsCount, expiringWorkTimer, timerDelay, timers,
                 whenQuiescent, onLastWorkItemDrained, created, kind, outcome,
                 phase, age, calls, cleanups, startOrder, settlements,
                 drainPromises, drainResolved>>

\* The handlers callAllThrottled chained to item w's whenComplete run:
\* .then stores the value and resolves when the count reaches zero; on a
\* rejection .then is skipped and .catch rejects unless rejected is set.
Collect(w) ==
  /\ called /\ phase[w] = "settled"
  /\ w \notin collected
  /\ collected' = collected \cup {w}
  /\ log' = << >>
  /\ IF settlements[w][1].how = "fulfilled"
       THEN /\ results' = [results EXCEPT ![w] = settlements[w][1].of]
            /\ outstandingResultCount' = outstandingResultCount - 1
            /\ allSettled' =
                 IF outstandingResultCount' = 0
                   THEN Append(allSettled, [how |-> "fulfilled",
                                            value |-> results', error |-> 0])
                   ELSE allSettled
            /\ UNCHANGED <<rejected, rejections>>
       ELSE /\ rejected' = TRUE
            /\ rejections' = Append(rejections, w)
            /\ allSettled' =
                 IF ~rejected
                   THEN Append(allSettled, [how |-> "rejected", value |-> << >>,
                                            error |-> settlements[w][1].of])
                   ELSE allSettled
            /\ UNCHANGED <<results, outstandingResultCount>>
  /\ UNCHANGED <<called, startWorkArray, options, maxOutstanding, maxQps,
                 next, prev, expirationSet,
                 expirationDelay, readyWorkPredecessor, outstandingCount,
                 qpsCount, expiringWorkTimer, timerDelay, timers,
                 whenQuiescent, onLastWorkItemDrained, created, kind, outcome,
                 phase, age, calls, cleanups, startOrder, settlements,
                 drainPromises, drainResolved>>

Next ==
  \/ \E k \in Kinds : Submit(k)
  \/ \E w \in Items, o \in Outcomes : Complete(w, o)
  \/ \E w \in Items : Settle(w)
  \/ TimerFire
  \/ WhenDrained
  \/ Tick
  \/ TickLate

Spec == Init /\ [][Next]_vars

\* The steps that change the throttle.  whenDrained() reads whenQuiescent
\* and changes nothing, so every state of the throttle that Spec reaches is
\* reached without it.
EngineNext ==
  \/ \E k \in Kinds : Submit(k)
  \/ \E w \in Items, o \in Outcomes : Complete(w, o)
  \/ \E w \in Items : Settle(w)
  \/ TimerFire
  \/ Tick
  \/ TickLate

EngineSpec == Init /\ [][EngineNext]_vars

\* A throttle with the largest rate limit, and one more submission than in
\* Spec.
BurstInit ==
  /\ Init
  /\ options.maxQps = MaxLimit

\* A caller submits a work function, in a run of BurstSpec.
SubmitBurst(k) ==
  /\ created < Burst
  /\ \E S \in {callThrottled(Fresh, k)} : Install(S)
  /\ UNCHANGED <<options, maxOutstanding, maxQps, allVars>>

\* The steps that change the list, the counters, the clock and the timer;
\* the settlement of an item's own promise changes none of them.
BurstNext ==
  \/ \E k \in Kinds : SubmitBurst(k)
  \/ \E w \in Items, o \in Outcomes : Complete(w, o)
  \/ TimerFire
  \/ Tick
  \/ TickLate

BurstSpec == BurstInit /\ [][BurstNext]_vars

\* Timers run on time: the clock does not pass a due timer.
NextPunctual ==
  \/ \E k \in Kinds : Submit(k)
  \/ \E w \in Items, o \in Outcomes : Complete(w, o)
  \/ \E w \in Items : Settle(w)
  \/ TimerFire
  \/ WhenDrained
  \/ Tick

PunctualSpec == Init /\ [][NextPunctual]_vars

\* The events that drive the engine, for the progress property:
\* submissions, completions, timer callbacks and the clock.
LiveNext ==
  \/ \E k \in Kinds : Submit(k)
  \/ \E w \in Items, o \in Outcomes : Complete(w, o)
  \/ TimerFire
  \/ Tick
  \/ TickLate

\* While an item is outstanding a completion eventually happens, a due timer
\* eventually fires, and time keeps passing.
Fairness ==
  /\ WF_vars(\E w \in Items, o \in Outcomes : Complete(w, o))
  /\ WF_vars(TimerFire)
  /\ WF_vars(Advance)

LiveSpec == Init /\ [][LiveNext]_vars /\ Fairness

\* A promise reaction is queued: the .then/.catch tail of an item's chain,
\* or the handlers of callAllThrottled.  Reactions are microtasks: they run
\* before the next timer callback and, at the granularity of the clock, take
\* no time.
ReactionPending ==
  \E w \in Items :
    \/ phase[w] \in {"cleaned", "broken"}
    \/ (called /\ phase[w] = "settled" /\ w \notin collected)

\* The timer callback as a task: it runs when no reaction is queued.
TimerTask == ~ReactionPending /\ TimerFire

\* Time passes between tasks.
ClockTask == ~ReactionPending /\ Advance

\* One call of callAllThrottled: the throttle is private to the call, so
\* nothing else is ever submitted to it.
AllNext ==
  \/ \E n \in 0..MaxItems : \E ks \in [1..n -> Kinds] : callAllThrottled(ks)
  \/ \E w \in Items, o \in Outcomes : Complete(w, o)
  \/ \E w \in Items : Settle(w)
  \/ \E w \in Items : Collect(w)
  \/ TimerTask
  \/ ClockTask

\* Every work promise eventually settles, promise reactions run, a due
\* timer eventually fires, and time keeps passing.
AllFairness ==
  /\ Fairness
  /\ WF_vars(\E w \in Items : Settle(w))
  /\ WF_vars(\E w \in Items : Collect(w))

AllSpec == Init /\ [][AllNext]_vars /\ AllFairness

----------------------------------------------------------------------------
\* Observations used by the properties

Queued == {w \in Items : phase[w] = "queued"}
\* Started and completion bookkeeping not yet run.
Outstanding == {w \in Items : phase[w] = "running"}
\* Started within the trailing window.
InWindow == {w \in Items : calls[w] > 0 /\ age[w] < Window}
Idle == Queued = {} /\ Outstanding = {}
LogOf(e) == {i \in 1..Len(log) : log[i].ev = e}
\* The Work objects reachable from the sentinel through next.
RECURSIVE Walk(_, _)
Walk(w, n) == IF w = workList \/ n = 0 THEN {} ELSE {w} \cup Walk(next[w], n - 1)
Linked == Walk(next[workList], Burst)
\* Created, and no longer (or not) in the list.
Unlinked == LET L == Linked IN {w \in 1..created : w \notin L}
StartedInStep == {log[i].w : i \in LogOf("start")}

TypeOK ==
  /\ outstandingCount \in 0..MaxItems
  /\ qpsCount \in 0..MaxItems
  /\ readyWorkPredecessor \in Nodes
  /\ created \in 0..MaxItems
  /\ \A w \in Items : phase[w] \notin {"broken", "lost"}

----------------------------------------------------------------------------
\* C1  FIFO admission: work functions are invoked in exactly the order of
\* submission, and no item has been started while an earlier-submitted item
\* is still queued.
C1_FifoAdmission ==
  /\ startOrder = [i \in 1..Len(startOrder) |-> i]
  /\ \A i \in Items : \A j \in Items :
        (i < j /\ calls[j] > 0) => phase[i] # "queued"

\* An item started from the queue in a later step while its successor is
\* still queued behind it.
C1_Witness ==
  /\ created >= 3
  /\ phase[2] = "running" /\ phase[3] = "queued"
  /\ 2 \in StartedInStep
  /\ log[1].ev # "submit"

\* C2  Outstanding cap: the number of items that have been started and
\* whose completion has not yet been seen never exceeds maxOutstanding.
C2_OutstandingCap == Cardinality(Outstanding) <= maxOutstanding

\* The cap is reached with more work waiting behind it.
C2_Witness ==
  /\ options.maxOutstanding = 2
  /\ Cardinality(Outstanding) = 2
  /\ Queued # {}

\* C3  QPS cap: at every instant the number of items started within the
\* trailing window (an item started a full window ago no longer counts) is
\* at most maxQps, also when the timer callback runs late.
C3_QpsCap == Cardinality(InWindow) <= maxQps

\* The window is full, an older item has already left it, and work waits.
C3_Witness ==
  /\ options.maxQps = 2
  /\ Cardinality(InWindow) = 2
  /\ \E w \in Items : calls[w] > 0 /\ age[w] = Window
  /\ \E w \in InWindow : phase[w] = "settled"

\* C4  Drain correctness: the drain promise is resolved only in a step that
\* leaves no item queued or outstanding; while an item is queued or
\* outstanding a pending, unresolved drain promise exists; once the throttle
\* is idle every drain promise created so far is resolved and none is
\* pending; whenDrained() returns an already-resolved promise exactly when
\* the throttle is idle.
C4_DrainCorrectness ==
  /\ LogOf("drain") # {} => Idle
  /\ ~Idle => whenQuiescent # 0 /\ whenQuiescent \notin drainResolved
  /\ Idle => whenQuiescent = 0 /\ drainResolved = 1..drainPromises
  /\ \A i \in LogOf("whenDrained") : (log[i].w = 0) <=> Idle

\* The completion that empties the throttle for the second time resolves the
\* second drain promise.
C4_Witness ==
  /\ \E i \in LogOf("drain") : log[i].w = 2
  /\ log[1].ev = "cleanup"
  /\ Idle

\* C5  Settlement fidelity: the promise returned by callThrottled is settled
\* at most once, never before the item was started, and only with the
\* outcome of the item's own work function: rejected with its error if the
\* function threw (in the very step that invoked it), otherwise the way the
\* promise it returned settled; no item's settlement is lost or replaced by
\* an error of the engine.
C5_SettlementFidelity ==
  \A w \in Items :
    /\ Len(settlements[w]) <= 1
    /\ phase[w] \notin {"broken", "lost"}
    /\ (phase[w] = "settled") <=> (Len(settlements[w]) = 1)
    /\ (kind[w] = "throw" /\ calls[w] > 0) => phase[w] = "settled"
    /\ Len(settlements[w]) = 1 =>
         /\ calls[w] = 1
         /\ settlements[w][1].of = w
         /\ settlements[w][1].how =
              (IF kind[w] = "throw" THEN "rejected" ELSE outcome[w])

\* One item fulfilled, one rejected through its promise, one rejected
\* because its work function threw.
C5_Witness ==
  /\ \E w \in Items : kind[w] = "promise" /\ Len(settlements[w]) = 1
                        /\ settlements[w][1].how = "fulfilled"
  /\ \E w \in Items : kind[w] = "promise" /\ Len(settlements[w]) = 1
                        /\ settlements[w][1].how = "rejected"
  /\ \E w \in Items : kind[w] = "throw" /\ Len(settlements[w]) = 1

\* C6  No starvation: there is never a queued item with neither a timer
\* armed nor a saturating outstanding item whose completion re-runs
\* admission; and, if started items complete, due timers fire and time
\* passes, every queued item is eventually started.
NoLostWakeup ==
  Queued # {} =>
    \/ expiringWorkTimer
    \/ Outstanding # {} /\ outstandingCount >= maxOutstanding

C6_NoStarvation ==
  /\ []NoLostWakeup
  /\ \A w \in Items : (phase[w] = "queued") ~> (calls[w] > 0)

\* A queued item is released by the timer after the outstanding limit,
\* which held it first, has been relaxed.
C6_Witness ==
  /\ options.maxOutstanding = 1 /\ options.maxQps = 1
  /\ Len(log) > 0 /\ log[1].ev = "timer"
  /\ StartedInStep # {}

\* C7  Unthrottled default: with neither option given no item is ever left
\* queued (each is started inside its own callThrottled call); with maxQps
\* absent an item waits only while maxOutstanding items are outstanding;
\* with maxOutstanding absent an item waits only while maxQps items were
\* started within the window or the timer callback is due.
C7_UnthrottledDefault ==
  /\ (options.maxOutstanding = 0 /\ options.maxQps = 0) =>
        /\ Queued = {}
        /\ (Len(log) > 0 /\ log[1].ev = "submit") => StartedInStep = {log[1].w}
  /\ (options.maxQps = 0 /\ Queued # {}) =>
        Cardinality(Outstanding) >= options.maxOutstanding
  /\ (options.maxOutstanding = 0 /\ Queued # {}) =>
        (Cardinality(InWindow) >= options.maxQps \/ TimerDue)

\* With no options, the last of several submissions starts at once although
\* none of the earlier items has completed.
C7_Witness ==
  /\ options.maxOutstanding = 0 /\ options.maxQps = 0
  /\ created >= 3
  /\ \A w \in 1..created : phase[w] = "running"
  /\ log[1] = Event("submit", created)

\* C8  Outstanding-limited release: with only maxOutstanding given, no timer
\* is ever armed (time alone starts nothing), queued items start only in
\* completion steps, each completion handler that runs while work waits
\* releases exactly one item (as many starts as handlers in the step), and
\* the released items are the earliest queued ones.
OnlyOutstanding == options.maxOutstanding > 0 /\ options.maxQps = 0

C8_OutstandingRelease ==
  OnlyOutstanding =>
    /\ ~expiringWorkTimer
    /\ StartedInStep # {} => log[1].ev \in {"submit", "cleanup"}
    /\ Queued # {} => Cardinality(Outstanding) = options.maxOutstanding
    /\ \A w \in StartedInStep : \A q \in Queued : w < q
    /\ (Len(log) > 0 /\ log[1].ev = "cleanup") =>
          \/ Cardinality(LogOf("start")) = Cardinality(LogOf("cleanup"))
          \/ /\ Queued = {}
             /\ Cardinality(LogOf("start")) < Cardinality(LogOf("cleanup"))
    /\ (Len(log) > 0 /\ log[1].ev = "submit") =>
          (StartedInStep \subseteq {log[1].w})

\* The younger of two outstanding items completes first and its handler
\* starts the head of the queue in the same step.
C8_Witness ==
  /\ options.maxOutstanding = 2 /\ options.maxQps = 0
  /\ phase[1] = "running"
  /\ Len(log) > 0 /\ log[1] = Event("cleanup", 2)
  /\ StartedInStep = {3}

\* C9  Rolling QPS window (timers on time, only maxQps given): never more
\* than maxQps items inside the trailing window, whether completed or not;
\* and a queued item exists only while maxQps items are inside the window,
\* or at the very instant one has left it and the timer callback is due.
OnlyQps == options.maxOutstanding = 0 /\ options.maxQps > 0

C9_RollingWindow ==
  OnlyQps =>
    /\ Cardinality(InWindow) <= options.maxQps
    /\ Queued # {} => (Cardinality(InWindow) = options.maxQps \/ TimerDue)

\* Items started half a window apart; the third is started by the timer
\* when the first, long completed, turns one window old, while the second
\* is still inside the window.
C9_Witness ==
  /\ options.maxOutstanding = 0 /\ options.maxQps = 2
  /\ Len(log) > 0 /\ log[1].ev = "timer"
  /\ StartedInStep = {3}
  /\ age[1] = Window /\ age[2] = Window - Quantum
  /\ phase[1] = "settled"

\* C10  Combined limits (timers on time, both options given): an item is
\* never started beyond either limit; a queued item exists only while the
\* outstanding limit or the window is full, or at the instant the timer
\* callback is due; and a completion that frees a saturated outstanding
\* slot leaves a queued item only if the limits still hold it.
BothLimits == options.maxOutstanding > 0 /\ options.maxQps > 0

C10_CombinedLimits ==
  BothLimits =>
    /\ Cardinality(Outstanding) <= options.maxOutstanding
    /\ Cardinality(InWindow) <= options.maxQps
    /\ Queued # {} =>
          \/ Cardinality(Outstanding) >= options.maxOutstanding
          \/ Cardinality(InWindow) >= options.maxQps
          \/ TimerDue
    /\ (Queued # {} /\ Len(log) > 1 /\ log[1].ev = "cleanup"
                     /\ log[2].ev = "enter") =>
          \/ Cardinality(Outstanding) >= options.maxOutstanding
          \/ Cardinality(InWindow) >= options.maxQps

\* The window of the first item ran out while it was still outstanding; the
\* second item starts in the step of the first item's completion.
C10_Witness ==
  /\ options.maxOutstanding = 1 /\ options.maxQps = 1
  /\ Len(log) > 0 /\ log[1] = Event("cleanup", 1)
  /\ age[1] = Window
  /\ StartedInStep = {2}

----------------------------------------------------------------------------
\* C11  Failure is bookkept like success (timers on time): an item whose
\* work promise rejected or whose work function threw has had its cleanup
\* run exactly once and is no longer counted as outstanding; the step of its
\* failure resolves the drain promise if it leaves the throttle idle and
\* runs an admission pass exactly if the outstanding limit was saturated;
\* the failed item stays in the list, counted against maxQps, until it is
\* one window old, so under maxQps alone a queued item waits exactly as
\* long as the window is full.
Failed ==
  {w \in Items :
     /\ calls[w] > 0
     /\ \/ kind[w] = "throw"
        \/ phase[w] \in {"cleaned", "settled"} /\ outcome[w] = "rejected"}

C11_FailureBookkeeping ==
  /\ outstandingCount = Cardinality(Outstanding)
  /\ LET L == Linked
     IN \A w \in Failed : cleanups[w] = 1 /\ (age[w] < Window => w \in L)
  /\ qpsCount >= Cardinality({w \in Failed : age[w] < Window})
  /\ Cardinality(InWindow) <= maxQps
  /\ (Idle /\ \E i \in LogOf("cleanup") : log[i].w \in Failed) =>
        /\ whenQuiescent = 0
        /\ drainResolved = 1..drainPromises
  /\ (Len(log) > 0 /\ log[1].ev = "cleanup" /\ log[1].w \in Failed) =>
        (LogOf("enter") # {} <=>
           outstandingCount + Cardinality(LogOf("cleanup"))
             - Cardinality(LogOf("start")) >= maxOutstanding)
  /\ (OnlyQps /\ Queued # {} /\ ~TimerDue) =>
        Cardinality(InWindow) = options.maxQps

\* Under maxQps = 1 the first item has failed; the second, queued behind it,
\* is started by the timer at the instant the failed item is one window old.
C11_Witness ==
  /\ options.maxOutstanding = 0 /\ options.maxQps = 1
  /\ 1 \in Failed /\ kind[1] = "promise" /\ age[1] = Window
  /\ Len(log) > 0 /\ log[1].ev = "timer"
  /\ StartedInStep = {2}

----------------------------------------------------------------------------------------------------------------------------------------
\* C12  callAllThrottled, success: once every item of the array, of any
\* length including zero, has settled successfully and its handlers have
\* run, the returned promise has been resolved, once, with item i's value at
\* index i; and it is not resolved before every item has fulfilled.
Fulfilled(i) == phase[i] = "settled" /\ settlements[i][1].how = "fulfilled"
InputOrder == [i \in 1..Len(startWorkArray) |-> settlements[i][1].of]

C12_AllFulfil ==
  called =>
    /\ (\A i \in 1..Len(startWorkArray) : Fulfilled(i) /\ i \in collected) =>
          allSettled = <<[how |-> "fulfilled", value |-> InputOrder,
                          error |-> 0]>>
    /\ (\E j \in 1..Len(allSettled) : allSettled[j].how = "fulfilled") =>
          \A i \in 1..Len(startWorkArray) : Fulfilled(i)

\* The same for arrays of length one or more.
C12_NonEmpty == Len(startWorkArray) > 0 => C12_AllFulfil

----------------------------------------------------------------------------
\* C13  callAllThrottled, failure: resolve and reject of the returned
\* promise are called at most once altogether; as soon as the handlers of a
\* rejected item have run the promise is rejected with the error of the
\* first such item, and nothing that is collected later changes that; and
\* every item of the array is still started, once, and runs to completion.
AllCompleted ==
  \A i \in 1..Len(startWorkArray) : phase[i] = "settled" /\ calls[i] = 1

C13_SettledOnce ==
  called =>
    /\ Len(allSettled) <= 1
    /\ rejected <=> rejections # << >>
    /\ rejections # << >> =>
          allSettled = <<[how |-> "rejected", value |-> << >>,
                          error |-> settlements[rejections[1]][1].of]>>

C13_AllFailure == []C13_SettledOnce /\ (rejected ~> AllCompleted)

\* The second item of the array was the first to be seen rejected, then
\* another rejection and a fulfilment were collected.
C13_Witness ==
  /\ collected = {1, 2, 3}
  /\ Len(rejections) = 2 /\ rejections[1] = 2
  /\ allSettled = <<[how |-> "rejected", value |-> << >>, error |-> 2]>>

----------------------------------------------------------------------------
\* C14  Single drain future: while an item is queued or outstanding the
\* latest drain promise is the one pending promise, and whenDrained()
\* returns it; no step replaces a pending drain promise by another one; and
\* a drain promise is created only by a submission, to an idle throttle, and
\* by every such submission.
C14_OnePending ==
  /\ ~Idle => /\ whenQuiescent # 0
              /\ whenQuiescent = drainPromises
              /\ drainResolved = 1..(drainPromises - 1)
  /\ \A i \in LogOf("whenDrained") : log[i].w = whenQuiescent

C14_Step ==
  /\ whenQuiescent # 0 => whenQuiescent' \in {0, whenQuiescent}
  /\ drainPromises' # drainPromises =>
        /\ Idle /\ whenQuiescent = 0
        /\ created' = created + 1
        /\ drainPromises' = drainPromises + 1
  /\ (created' # created /\ whenQuiescent = 0) =>
        drainPromises' = drainPromises + 1

C14_SingleDrainFuture == []C14_OnePending /\ [][C14_Step]_vars

\* In the second busy period, after a further submission, whenDrained()
\* returns the second drain promise, still pending.
C14_Witness ==
  /\ created = 3 /\ drainPromises = 2
  /\ phase[1] = "settled" /\ phase[2] = "running" /\ phase[3] = "queued"
  /\ log = <<Event("whenDrained", 2)>>
  /\ drainResolved = {1}

----------------------------------------------------------------------------
\* C15  At most one invocation: the work function of an item is invoked at
\* most once over the item's whole life, whatever passes, purges and timer
\* callbacks the item lives through.
C15_AtMostOnce ==
  /\ \A w \in Items : calls[w] <= 1
  /\ \A i \in 1..Len(startOrder) : \A j \in 1..Len(startOrder) :
        startOrder[i] = startOrder[j] => i = j
  /\ \A w \in Items : phase[w] \in {"new", "queued"} <=> calls[w] = 0

\* A timer pass purges the first item and starts the third, while the second,
\* started earlier and still in the list, is passed over.
C15_Witness ==
  /\ Len(log) > 0 /\ log[1].ev = "timer"
  /\ \E i \in LogOf("purge") : log[i].w = 1
  /\ StartedInStep = {3}
  /\ 2 \in Linked /\ calls[2] = 1 /\ phase[2] = "running"

----------------------------------------------------------------------------
\* C16  Timer arm/cancel invariant: after every step of the engine (a
\* submission, a completion handler, a timer callback) the timer is armed
\* if and only if there is ready work, qpsCount has reached maxQps and
\* outstandingCount is below maxOutstanding.
C16_TimerArmed ==
  expiringWorkTimer <=>
    (hasReadyWork(State) /\ atMaxQps(State) /\ ~atMaxOutstanding(State))

\* A completion at the outstanding limit runs a pass that finds the next
\* item held back by the window alone, and arms the timer for the half
\* window that is left.
C16_Witness ==
  /\ Len(log) > 0 /\ log[1].ev = "cleanup"
  /\ Queued # {} /\ StartedInStep = {}
  /\ expiringWorkTimer /\ timerDelay = Quantum

----------------------------------------------------------------------------
\* C17  Timer deadline: at most one timer is pending, and whenever one is
\* pending its fire time is exactly the expiry of the oldest item in the
\* list, also after a pass that purged the oldest item and left the timer
\* in place.
C17_TimerDeadline ==
  /\ timers <= 1
  /\ expiringWorkTimer => timerDelay = expirationDelay[first(State)]

\* C17, amended: at most one timer is pending; a pending timer that is not
\* yet due fires exactly at the expiry of the oldest item in the list; a
\* pending timer is never later than that expiry, and a timer that the
\* callback has just armed is exact.
C17_TimerDeadlineUnlessDue ==
  /\ timers = IF expiringWorkTimer THEN 1 ELSE 0
  /\ expiringWorkTimer =>
        /\ first(State) # workList /\ expirationSet[first(State)]
        /\ timerDelay \in {0, expirationDelay[first(State)]}
        /\ (Len(log) > 0 /\ log[1].ev = "timer") =>
              timerDelay = expirationDelay[first(State)]

\* A submission at the instant the timer is due purges the oldest item and
\* starts the next; the timer armed for the purged item stays in place, due
\* now, a full window before the expiry of the item that is now the oldest.
C17_Witness ==
  /\ Len(log) > 0 /\ log[1].ev = "submit"
  /\ LogOf("purge") # {}
  /\ expiringWorkTimer /\ timerDelay = 0
  /\ expirationDelay[first(State)] = Window

----------------------------------------------------------------------------
\* C18  Non-reentrancy: processWork is never entered while an invocation of
\* it is executing, also not by the cleanup of an item whose work function
\* throws while maxOutstanding is saturated.
Count(e, i) == Cardinality({j \in 1..i : log[j].ev = e})
\* Invocations of processWork on the stack after event i of the step.
Depth(i) == Count("enter", i) - Count("exit", i)
\* outstandingCount after event i of the step.
OutstandingAt(i) ==
  outstandingCount - (Count("start", Len(log)) - Count("start", i))
                   + (Count("cleanup", Len(log)) - Count("cleanup", i))
\* Event j is the cleanup that the catch block of execute runs for an item
\* whose work function has just thrown, at the outstanding limit.
ThrowAtLimit(j) ==
  /\ log[j].ev = "cleanup" /\ kind[log[j].w] = "throw"
  /\ j > 1 /\ log[j - 1] = Event("start", log[j].w)
  /\ OutstandingAt(j) + 1 >= maxOutstanding

C18_NonReentrant == \A i \in 1..Len(log) : Depth(i) <= 1

\* C18, amended: processWork is entered while an invocation is executing
\* exactly by the cleanup of an item whose work function throws while
\* outstandingCount has reached maxOutstanding; completions of work promises
\* and timer callbacks enter it with no invocation executing, and every
\* invocation has returned by the end of the step.
C18_NestedOnlyOnThrow ==
  /\ Depth(Len(log)) = 0
  /\ \A i \in LogOf("enter") :
        Depth(i) >= 2 =>
          \E j \in 1..(i - 1) :
            /\ ThrowAtLimit(j)
            /\ j = i - 1 \/ (j = i - 2 /\ log[i - 1].ev = "drain")
  /\ \A j \in 1..Len(log) :
        (ThrowAtLimit(j) /\ Depth(j) >= 1) =>
          \E i \in {j + 1, j + 2} :
            i <= Len(log) /\ log[i].ev = "enter" /\ Depth(i) = Depth(j) + 1
  /\ \A i \in 1..Len(log) :
        Depth(i) <= 1 + Cardinality({w \in StartedInStep : kind[w] = "throw"})

\* The first submission to a throttle with maxOutstanding = 1 throws: its
\* cleanup runs processWork inside the pass that callThrottled started.
C18_Witness ==
  /\ options.maxOutstanding = 1 /\ created = 1
  /\ Len(log) > 0 /\ log[1].ev = "submit"
  /\ \E i \in 1..Len(log) : Depth(i) = 2

----------------------------------------------------------------------------
\* C19  Item lifecycle: an item is queued, then started, then completed or
\* failed while still in the list, then unlinked, in this order and without
\* skipping; no item is unlinked while it is still outstanding, also when
\* it runs for longer than a window and a pass purges in the meantime.
C19_Lifecycle ==
  LET L == Linked
  IN \A w \in 1..created :
       /\ phase[w] = "queued" => w \in L /\ calls[w] = 0
       /\ phase[w] = "running" => w \in L
       /\ w \notin L => phase[w] \in {"cleaned", "settled"}

\* C19, amended: an item is queued, then started, and from then on two
\* things happen to it in either order: it completes or fails (cleanup, then
\* settlement), and it is unlinked by the first pass that finds it one
\* window old, whether or not it is still outstanding.  It is never unlinked
\* before it was started or before it is one window old, stays in the list
\* until then, and is never linked in again.
Rank(ph) ==
  CASE ph = "new" -> 0 [] ph = "queued" -> 1 [] ph = "running" -> 2
    [] ph = "cleaned" -> 3 [] ph = "settled" -> 4 [] OTHER -> 5

C19_Stages ==
  LET L == Linked
  IN \A w \in 1..created :
       /\ phase[w] = "queued" => w \in L /\ calls[w] = 0 /\ cleanups[w] = 0
       /\ phase[w] = "running" => calls[w] = 1 /\ cleanups[w] = 0
       /\ phase[w] \in {"cleaned", "settled"} =>
             calls[w] = 1 /\ cleanups[w] = 1
       /\ w \notin L => calls[w] = 1 /\ age[w] = Window
       /\ (calls[w] = 1 /\ age[w] < Window) => w \in L

C19_Step ==
  /\ next' # next => Unlinked \subseteq Unlinked'
  /\ phase' # phase =>
        \A w \in Items :
          phase'[w] # phase[w] =>
            /\ Rank(phase'[w]) > Rank(phase[w])
            /\ (phase[w] = "queued" /\ phase'[w] = "settled") =>
                  \E i \in 1..Len(log') :
                    /\ log'[i] = Event("start", w)
                    /\ log'[i + 1] = Event("cleanup", w)
                    /\ \E j \in (i + 1)..Len(log') :
                          log'[j] = Event("settle", w)

C19_LifecycleByExpiry == []C19_Stages /\ [][C19_Step]_vars

\* The timer callback purges the first item, which has been running for a
\* whole window and is still outstanding.
C19_Witness ==
  /\ Len(log) > 0 /\ log[1].ev = "timer"
  /\ \E i \in LogOf("purge") : log[i].w = 1
  /\ phase[1] = "running" /\ 1 \in Unlinked

----------------------------------------------------------------------------
\* C20  Quiescence excludes tracked items: whenever the drain signal fires
\* no item is queued, none is outstanding and none is left in the list: the
\* list holds the sentinel only and qpsCount is 0.
\* Nothing is started in a step after the drain signal has fired in it; a
\* pass that follows in the same step can only purge.
Drained(i) == log[i].ev = "drain"

C20_QuiescentEmpty ==
  \A i \in 1..Len(log) :
    Drained(i) =>
      /\ Queued = {} /\ Outstanding = {}
      /\ first(State) = workList /\ qpsCount = 0

\* C20, amended: whenever the drain signal fires no item is queued and none
\* is outstanding; the items still in the list are completed items started
\* less than a window ago or not yet purged, and qpsCount counts them.
C20_QuiescentIdle ==
  \A i \in 1..Len(log) :
    Drained(i) =>
      /\ \A j \in (i + 1)..Len(log) : log[j].ev \notin {"start", "cleanup"}
      /\ Queued = {} /\ Outstanding = {}
      /\ outstandingCount = 0 /\ ~hasReadyWork(State)
      /\ readyWorkPredecessor = last(State)
      /\ LET L == Linked
         IN /\ \A w \in L : calls[w] = 1 /\ cleanups[w] = 1
            /\ qpsCount = Cardinality(L)

\* The last outstanding item completes within its window: the drain signal
\* fires while the item is still in the list and counted in qpsCount.
C20_Witness ==
  /\ Len(log) = 2 /\ log[1].ev = "cleanup" /\ Drained(2)
  /\ qpsCount > 0 /\ first(State) # workList
  /\ \E w \in Linked : age[w] < Window

----------------------------------------------------------------------------
\* C21  Drain-signal presence: after every step whenQuiescent and
\* onLastWorkItemDrained are set if and only if an item is queued or
\* outstanding; the callback is non-null whenever a cleanup calls it (no
\* cleanup ever throws); and it is called once per busy period: at most once
\* in a step, for the promise of that period, which was pending until then.
C21_DrainPresence ==
  /\ whenQuiescent # 0 <=> ~Idle
  /\ onLastWorkItemDrained <=> whenQuiescent # 0
  /\ \A w \in Items : phase[w] \notin {"broken", "lost"}
  /\ Cardinality(LogOf("drain")) <= 1
  /\ \A i \in LogOf("drain") : log[i].w = drainPromises
  /\ Cardinality(drainResolved) =
       IF whenQuiescent = 0 THEN drainPromises ELSE drainPromises - 1

C21_Once ==
  \A i \in 1..Len(log') :
    log'[i].ev = "drain" => log'[i].w \notin drainResolved

C21_DrainSignal == []C21_DrainPresence /\ [][C21_Once]_vars

\* The third busy period ends: the third drain promise is resolved by the
\* completion of the third item.
C21_Witness ==
  /\ drainPromises = 3 /\ drainResolved = {1, 2, 3}
  /\ Len(log) > 1 /\ log[1] = Event("cleanup", 3) /\ log[2] = Event("drain", 3)
  /\ ~onLastWorkItemDrained

----------------------------------------------------------------------------
\* C22  qpsCount invariant: qpsCount is the number of started items still in
\* the list and lies between 0 and maxQps; a step changes it by the number
\* of items it starts minus the number it purges, so a completion that runs
\* no pass leaves it as it is.
C22_Counts ==
  /\ qpsCount = Cardinality({w \in Linked : calls[w] > 0})
  /\ 0 <= qpsCount /\ qpsCount <= maxQps

C22_Step ==
  LET starts == Cardinality({i \in 1..Len(log') : log'[i].ev = "start"})
      purges == Cardinality({i \in 1..Len(log') : log'[i].ev = "purge"})
  IN qpsCount' = qpsCount + starts - purges

C22_QpsCount == []C22_Counts /\ [][C22_Step]_vars

\* A completion at the outstanding limit runs a pass that purges the two
\* expired items and starts the third.
C22_Witness ==
  /\ Len(log) > 0 /\ log[1].ev = "cleanup"
  /\ Cardinality(LogOf("purge")) = 2
  /\ StartedInStep = {3}
  /\ qpsCount = 1

----------------------------------------------------------------------------
\* C23  outstandingCount invariant: outstandingCount is the number of items
\* whose work function was invoked and whose cleanup has not run, and is
\* never negative; the cleanup of an item runs at most once, never before
\* the start, and has run exactly once when the work promise has fulfilled
\* or rejected and when the work function has thrown.
C23_OutstandingCount ==
  /\ outstandingCount = Cardinality({w \in Items : calls[w] > cleanups[w]})
  /\ outstandingCount >= 0
  /\ \A w \in Items :
        /\ cleanups[w] <= calls[w] /\ cleanups[w] <= 1
        /\ phase[w] \in {"cleaned", "settled"} => cleanups[w] = 1
        /\ phase[w] = "running" => cleanups[w] = 0 /\ kind[w] = "promise"
        /\ (kind[w] = "throw" /\ calls[w] > 0) => cleanups[w] = 1
  /\ \A i \in LogOf("cleanup") : \A j \in LogOf("cleanup") :
        log[i].w = log[j].w => i = j

\* One item has fulfilled, one has rejected and one has thrown; the count
\* is back at zero.
C23_Witness ==
  /\ created = 3 /\ outstandingCount = 0
  /\ \E a \in Items, b \in Items, c \in Items :
        /\ kind[a] = "promise" /\ outcome[a] = "fulfilled" /\ cleanups[a] = 1
        /\ kind[b] = "promise" /\ outcome[b] = "rejected" /\ cleanups[b] = 1
        /\ kind[c] = "throw" /\ cleanups[c] = 1

----------------------------------------------------------------------------
\* C24  Maximal admission: whenever an item is queued, qpsCount has reached
\* maxQps or outstandingCount has reached maxOutstanding; a work function
\* is started only inside an admission pass; and at the end of a step that
\* ran a pass, a queued item remains only if the outstanding limit is
\* reached or maxQps started items are still inside the window, so the
\* pass has started every item the limits allow.
C24_MaximalAdmission ==
  /\ Queued # {} =>
       qpsCount >= maxQps \/ outstandingCount >= maxOutstanding
  /\ LogOf("start") # {} => LogOf("enter") # {}
  /\ (LogOf("exit") # {} /\ Queued # {}) =>
       \/ outstandingCount >= maxOutstanding
       \/ Cardinality(InWindow) >= maxQps

\* The timer's pass has purged the expired item and started the next one;
\* the third item stays queued behind the rate limit alone.
C24_Witness ==
  /\ Len(log) > 0 /\ log[1].ev = "timer"
  /\ LogOf("purge") # {} /\ StartedInStep # {} /\ Queued # {}
  /\ qpsCount >= maxQps /\ outstandingCount < maxOutstanding

----------------------------------------------------------------------------
\* C25  Completion re-trigger: the cleanup callback calls processWork if and
\* only if outstandingCount had reached maxOutstanding immediately before
\* the decrement.  A completion below the limit starts nothing and purges
\* nothing; it decrements outstandingCount, possibly fires the drain
\* signal, and leaves qpsCount, the list, the cursor and the timer as they
\* were.
\* The event that follows cleanup event j, the drain event skipped.
AfterCleanup(j) ==
  IF j < Len(log) /\ log[j + 1].ev = "drain" THEN j + 2 ELSE j + 1

C25_Rerun ==
  \A j \in LogOf("cleanup") :
    LET k == AfterCleanup(j)
    IN (k <= Len(log) /\ log[k].ev = "enter")
         <=> OutstandingAt(j) + 1 >= maxOutstanding

C25_Frame ==
  (Len(log') > 0 /\ log'[1].ev = "cleanup"
     /\ outstandingCount < maxOutstanding) =>
    /\ outstandingCount' = outstandingCount - 1
    /\ \A i \in 1..Len(log') : log'[i].ev \in {"cleanup", "drain"}
    /\ UNCHANGED <<qpsCount, next, prev, readyWorkPredecessor,
                   expiringWorkTimer, timerDelay, timers, expirationSet,
                   expirationDelay, calls, startOrder, created>>

C25_CompletionTrigger == []C25_Rerun /\ [][C25_Frame]_vars

\* A work promise has completed below the outstanding limit while an item
\* was waiting behind the rate limit: no pass has run and the item is still
\* queued.
C25_Witness ==
  /\ Len(log) = 1 /\ log[1].ev = "cleanup"
  /\ Queued # {} /\ outstandingCount + 1 < maxOutstanding
  /\ qpsCount >= maxQps

----------------------------------------------------------------------------
\* C26  Effect of one submission, as stated: a callThrottled call starts
\* zero items or one item, never more.
C26_AtMostOne ==
  (Len(log) > 0 /\ log[1].ev = "submit") => Cardinality(StartedInStep) <= 1

\* C26, amended: a callThrottled call creates exactly one Work object and
\* links it in at the tail, and its admission pass starts at most one item
\* more than it has purged and never more than maxQps; if the pass purged
\* nothing, the submitted item is the only one it can have started.
C26_SubmitStarts ==
  (Len(log) > 0 /\ log[1].ev = "submit") =>
    /\ log[1].w = created
    /\ Cardinality(LogOf("submit")) = 1
    /\ prev[workList] = created /\ next[created] = workList
    /\ Cardinality(StartedInStep) <= 1 + Cardinality(LogOf("purge"))
    /\ Cardinality(StartedInStep) <= maxQps
    /\ LogOf("purge") = {} => StartedInStep \subseteq {created}

\* The submission is made after the window of the started items has passed
\* and before the timer callback has run: its pass purges them and starts
\* the waiting item and the submitted one.
C26_Witness ==
  /\ Len(log) > 0 /\ log[1].ev = "submit"
  /\ Cardinality(LogOf("purge")) = 2
  /\ StartedInStep = {created - 1, created}

----------------------------------------------------------------------------
\* C27  Shape of the list: from the sentinel, the list holds the started
\* items by non-decreasing start time and then the never-started items in
\* submission order; readyWorkPredecessor is the last started item in the
\* list, or the sentinel when there is none.  A purge removes started,
\* expired items from the head only, never a queued item or the sentinel;
\* when it removes the item the cursor is on, the cursor moves to the
\* sentinel and the next ready item is the same as before.
C27_Shape ==
  LET L == Linked
  IN /\ \A w \in L \cup {workList} : prev[next[w]] = w
     /\ \A w \in L : next[w] # workList =>
          /\ w < next[w]
          /\ calls[next[w]] > 0 => calls[w] > 0 /\ age[w] >= age[next[w]]
     /\ readyWorkPredecessor \in L \cup {workList}
     /\ readyWorkPredecessor # workList => calls[readyWorkPredecessor] > 0
     /\ next[readyWorkPredecessor] # workList =>
          calls[next[readyWorkPredecessor]] = 0
     /\ \A i \in LogOf("purge") :
          /\ log[i].w \in Items \ L
          /\ calls[log[i].w] > 0 /\ age[log[i].w] >= Window

\* The items purged and the first item started in the step to log'.
Purged == {log'[i].w : i \in {j \in 1..Len(log') : log'[j].ev = "purge"}}
Starts == {j \in 1..Len(log') : log'[j].ev = "start"}

C27_Purge ==
  LET ready == next[readyWorkPredecessor]
  IN /\ Purged # {} =>
          \A w \in Purged :
            /\ w \in Linked /\ calls[w] > 0
            /\ prev[w] = workList \/ prev[w] \in Purged
     /\ ready # workList =>
          /\ ready \notin Purged
          /\ IF Starts # {}
               THEN \A j \in Starts : (\A i \in Starts : j <= i) => log'[j].w = ready
               ELSE next'[readyWorkPredecessor'] = ready
     /\ (readyWorkPredecessor \in Purged /\ Starts = {}) =>
          readyWorkPredecessor' = workList

C27_ListShape == []C27_Shape /\ [][C27_Purge]_vars

\* A pass at the outstanding limit has purged the item the cursor was on:
\* the cursor is the sentinel and the waiting item is the head of the list.
C27_Witness ==
  /\ LogOf("purge") # {} /\ LogOf("start") = {}
  /\ readyWorkPredecessor = workList
  /\ next[workList] # workList /\ phase[next[workList]] = "queued"
  /\ Cardinality(Queued) = 2

----------------------------------------------------------------------------
\* C28  Bookkeeping precedes settlement: whenComplete of an item is settled
\* only after the cleanup of that item has run, together with the drain
\* signal it fires and the processWork it triggers, whether the work
\* promise completed or the work function threw; so when the drain signal
\* fires, whenComplete of the item whose cleanup fires it is unsettled.
\* The settle events of item w in the log.
SettlesOf(w) == {i \in LogOf("settle") : log[i].w = w}

C28_BookkeepingFirst ==
  /\ \A w \in Items :
        /\ settlements[w] # << >> => cleanups[w] = 1
        /\ phase[w] = "cleaned" => settlements[w] = << >>
  /\ \A j \in LogOf("cleanup") :
        LET w == log[j].w
            k == AfterCleanup(j)
        IN /\ Len(settlements[w]) = Cardinality(SettlesOf(w))
           /\ \A i \in SettlesOf(w) :
                /\ i >= k
                /\ Depth(i) = Depth(j)
  /\ \A d \in LogOf("drain") :
        /\ d > 1 /\ log[d - 1].ev = "cleanup"
        /\ \A i \in SettlesOf(log[d - 1].w) : i > d

\* The work function of the only outstanding item has thrown at the
\* outstanding limit: the catch block has run the cleanup, which fired the
\* drain signal and ran processWork, and only then rejected whenComplete.
C28_Witness ==
  \E j \in LogOf("cleanup") :
    /\ kind[log[j].w] = "throw"
    /\ j + 2 <= Len(log)
    /\ log[j + 1].ev = "drain" /\ log[j + 2].ev = "enter"
    /\ \E i \in SettlesOf(log[j].w) : i > j + 2

====
